---- MODULE Spec2Model ----
(***************************************************************************)
(* State-machine model of src/main.rs: the candle generator thread, the    *)
(* mpsc channel, and the dashboard loop of main() (message ingestion into  *)
(* the per-market rolling windows, key handling, render, loop exit).       *)
(*                                                                         *)
(* Numbers.  The program's f64 prices are modelled as integers in a fixed  *)
(* unit per market (Unit: hundredths for the USD markets, whole units for  *)
(* the IDR markets), so the seed prices of the source are exact and every  *)
(* value stays inside TLC's integer range.  Floating-point rounding is not *)
(* modelled.  The random draws of the generator are sample points of the   *)
(* ranges the source draws from (MoveGrid, WickGrid, VolGrid).             *)
(***************************************************************************)
EXTENDS Integers, Sequences, FiniteSets, TLC

VARIABLES
    prices,            \* generator: HashMap market -> running price
    time,              \* generator: logical clock (seconds)
    genPc,             \* generator position: "candle", "sleep", "done"
    genIdx,            \* generator: index into thread_markets of the for loop
    rngSeed,           \* generator: the seed of rand::thread_rng()
    queue,             \* mpsc channel: messages sent and not yet received
    data,              \* main: HashMap market -> Vec<Candle>
    price_changes,     \* main: HashMap market -> f64
    latest_price_map,  \* main: HashMap market -> f64, as the Option that get() returns
    selected_market,   \* main: usize index into markets (0-based)
    should_quit,       \* main: bool
    mainPc,            \* main position: "recv","poll","key","draw","tail","done","failed"
    key,               \* main: the event returned by event::read() ("none" outside "key")
    sentLog,           \* history: per market, the candles the generator sent, in order
    ingestLog,         \* history: per market, the candles main ingested, in order
    quitMark,          \* history: number of candles sent when 'q' was handled (-1: not yet)
    fmtFn,             \* formatter call: "none", "usd" (format_usd) or "idr" (format_idr)
    fmtArg,            \* formatter call: the f64 argument `price`
    fmtText            \* formatter call: the String returned, as a sequence of characters

vars == <<prices, time, genPc, genIdx, rngSeed, queue, data, price_changes,
          latest_price_map, selected_market, should_quit, mainPc, key,
          sentLog, ingestLog, quitMark, fmtFn, fmtArg, fmtText>>

fmtVars == <<fmtFn, fmtArg, fmtText>>

genVars == <<prices, time, genPc, genIdx, rngSeed>>
storeVars == <<data, price_changes, latest_price_map, ingestLog>>

(***************************************************************************)
(* Bounds of the model.                                                    *)
(***************************************************************************)
MaxRounds == 32   \* tick rounds the generator runs before the model stops it
MaxQueue == 5     \* NewCandle messages the channel holds before the generator waits
LiveRounds == 3   \* tick rounds of the runs on which progress is checked

(***************************************************************************)
(* Program constants.                                                      *)
(***************************************************************************)
markets == <<"USD/BTC", "USD/ETH", "IDR/BTC", "IDR/ETH">>

NMarkets == Len(markets)

MarketSet == {markets[i] : i \in 1..NMarkets}

WindowCap == 30

ClockStep == 60

StartTime == 1762300800

\* HashMap::get on latest_price_map: None, or Some(price).
NoPrice == <<>>

Some(price) == <<price>>

\* Model units per currency unit (the representation of f64 prices).
Unit(market) == IF market \in {"USD/BTC", "USD/ETH"} THEN 100 ELSE 1

InitPrice(market) ==
    CASE market = "USD/BTC" -> 10387900
      [] market = "USD/ETH" -> 254864
      [] market = "IDR/BTC" -> 1729998000
      [] market = "IDR/ETH" -> 42679530

volatility_factor(market) ==
    CASE market = "USD/BTC" -> 100
      [] market = "USD/ETH" -> 10
      [] market = "IDR/BTC" -> 1000000
      [] market = "IDR/ETH" -> 100000
      [] OTHER -> 1

volume_factor(market) ==
    CASE market \in {"USD/BTC", "IDR/BTC"} -> 5
      [] market \in {"USD/ETH", "IDR/ETH"} -> 20
      [] OTHER -> 1

(***************************************************************************)
(* Random draws.  Each grid lists sample points of one random_range call:  *)
(* MoveGrid in hundredths of [-1.0, 1.0), WickGrid in hundredths of the    *)
(* volatility factor over [0, 0.2), VolGrid over [100, 1000).              *)
(* thread_rng() is a pseudo-random generator: the stream of draws is fixed *)
(* by its seed, which is chosen by the operating system (Seeds).           *)
(***************************************************************************)
MoveGrid == <<-100, -37, 0, 99>>
WickGrid == <<0, 19>>
VolGrid == <<100, 999>>
Seeds == {0, 13}

NDraws == Len(MoveGrid) * Len(WickGrid) * Len(WickGrid) * Len(VolGrid)

Round == (time - StartTime) \div ClockStep

\* The draws of the candle of market index i in round r under seed s.
Tape(s, r, i) ==
    LET idx == (s + 5 * r + 3 * (i - 1)) % NDraws
        a == idx % Len(MoveGrid)
        b == (idx \div Len(MoveGrid)) % Len(WickGrid)
        c == (idx \div (Len(MoveGrid) * Len(WickGrid))) % Len(WickGrid)
        d == (idx \div (Len(MoveGrid) * Len(WickGrid) * Len(WickGrid))) % Len(VolGrid)
    IN  [move |-> MoveGrid[a + 1], up |-> WickGrid[b + 1],
         down |-> WickGrid[c + 1], vol |-> VolGrid[d + 1]]

Max(a, b) == IF a >= b THEN a ELSE b
Min(a, b) == IF a <= b THEN a ELSE b

\* rng.random_range(lo..hi) * factor, for a draw given in hundredths.
Scaled(pct, market) == (pct * volatility_factor(market) * Unit(market)) \div 100

\* The price after `*price += movement`.
MovedPrice(open, draw, market) == open + Scaled(draw.move, market)

\* Variant: the wick is added to the open instead of to max(open, price).
HighOf_FromOpen(open, price, draw, market) == open + Scaled(draw.up, market)

HighOf(open, price, draw, market) == Max(open, price) + Scaled(draw.up, market)

LowOf(open, price, draw, market) == Min(open, price) - Scaled(draw.down, market)

VolumeOf(draw, market) == draw.vol * volume_factor(market)

\* The Candle built in one pass of the for loop.
MakeCandle(market, t, open, draw) ==
    LET price == MovedPrice(open, draw, market)
    IN  [time |-> t, open |-> open,
         high |-> HighOf(open, price, draw, market),
         low |-> LowOf(open, price, draw, market),
         close |-> price,
         volume |-> VolumeOf(draw, market)]

NewCandle(market, candle) == [tag |-> "NewCandle", market |-> market, candle |-> candle]

QuitMsg == [tag |-> "Quit"]

\* Variant: the receiver counts as gone as soon as should_quit is set.
rxAlive_UntilQuit == mainPc \notin {"done", "failed"} /\ ~should_quit

\* The receiver lives until main returns.
rxAlive == mainPc \notin {"done", "failed"}

TotalSent == Len(sentLog[markets[1]]) + Len(sentLog[markets[2]])
             + Len(sentLog[markets[3]]) + Len(sentLog[markets[4]])

IsCandleMsg(message) == message.tag = "NewCandle"

\* NewCandle messages waiting in the channel.
PendingCandles == Len(SelectSeq(queue, IsCandleMsg))

(***************************************************************************)
(* The formatters.  A String is a sequence of one-character strings.  An   *)
(* f64 argument is NaN, an infinity, or a finite decimal                   *)
(* (-1)^neg * (units + frac / 10000); "{:.2}" rounds to the nearest        *)
(* hundredth (ties to even on the decimal value).                          *)
(***************************************************************************)
Finite(neg, units, frac) == [kind |-> "finite", neg |-> neg, units |-> units, frac |-> frac]

NaN == [kind |-> "nan"]

Infinity(neg) == [kind |-> "inf", neg |-> neg]

Digit(d) == <<"0", "1", "2", "3", "4", "5", "6", "7", "8", "9">>[d + 1]

IsDigit(ch) == ch \in {"0", "1", "2", "3", "4", "5", "6", "7", "8", "9"}

RECURSIVE IntStr(_)
\* to_string() of a non-negative integer.
IntStr(n) == IF n < 10 THEN <<Digit(n)>> ELSE IntStr(n \div 10) \o <<Digit(n % 10)>>

\* n written with exactly w digits (n < 10^w).
RECURSIVE Padded(_, _)
Padded(n, w) == IF w = 0 THEN <<>> ELSE Padded(n \div 10, w - 1) \o <<Digit(n % 10)>>

Reverse(seq) == [i \in 1..Len(seq) |-> seq[Len(seq) + 1 - i]]

RECURSIVE Pow10(_)
Pow10(k) == IF k = 0 THEN 1 ELSE 10 * Pow10(k - 1)

\* Hundredths of (units + frac/10000) / 10^k, rounded to nearest: what "{:.2}"
\* prints for abs_price / 10^k, for k = 0 and k >= 3.
Hundredths(units, frac, k) ==
    IF k = 0
    THEN LET h == units * 100 + frac \div 100
             r == frac % 100
         IN  IF r > 50 \/ (r = 50 /\ h % 2 = 1) THEN h + 1 ELSE h
    ELSE LET den == Pow10(k - 2)
             h == units \div den
             r == units % den
         IN  IF 2 * r > den \/ (2 * r = den /\ (frac > 0 \/ h % 2 = 1))
             THEN h + 1 ELSE h

\* format!("{:.2}", x) for x given in hundredths.
Fixed2(h) == IntStr(h \div 100) \o <<".">> \o Padded(h % 100, 2)

\* format!("{:.4}", x) for x = frac / 10000 < 1.
Fixed4(frac) == <<"0", ".">> \o Padded(frac, 4)

\* parts = formatted.split('.'): the text before the first '.', and the text after it.
DotAt(text) == CHOOSE i \in 1..Len(text) : text[i] = "." /\ \A j \in 1..(i - 1) : text[j] # "."

BeforeDot(text) == SubSeq(text, 1, DotAt(text) - 1)

AfterDot(text) == SubSeq(text, DotAt(text) + 1, Len(text))

\* .chars().rev() .. .chunks(3) .. .join(sep) .. .chars().rev(): sep after
\* every third character counted from the right.
RECURSIVE JoinChunks(_, _)
JoinChunks(rev, sep) ==
    IF Len(rev) <= 3 THEN rev
    ELSE SubSeq(rev, 1, 3) \o <<sep>> \o JoinChunks(SubSeq(rev, 4, Len(rev)), sep)

GroupChars(text, sep) == Reverse(JoinChunks(Reverse(text), sep))

Invalid == <<"I", "n", "v", "a", "l", "i", "d">>

IsZero(price) == price.units = 0 /\ price.frac = 0

AtLeast(price, units) == price.units >= units

\* abs_price >= 0.10
AtLeastTenth(price) == price.units >= 1 \/ price.frac >= 1000

format_usd(price) ==
    IF price.kind # "finite" THEN Invalid
    ELSE IF IsZero(price) THEN <<"$", "0", ".", "0", "0">>
    ELSE
      LET sign == IF price.neg THEN <<"-">> ELSE <<>>
          formatted ==
              IF AtLeast(price, 1000000000)
              THEN sign \o Fixed2(Hundredths(price.units, price.frac, 9)) \o <<"B">>
              ELSE IF AtLeast(price, 1000000)
              THEN sign \o Fixed2(Hundredths(price.units, price.frac, 6)) \o <<"M">>
              ELSE IF AtLeast(price, 1000)
              THEN sign \o Fixed2(Hundredths(price.units, price.frac, 3)) \o <<"K">>
              ELSE IF AtLeastTenth(price)
              THEN sign \o Fixed2(Hundredths(price.units, price.frac, 0))
              ELSE sign \o Fixed4(price.frac)
      IN  IF ~AtLeast(price, 1000) /\ AtLeastTenth(price)
          THEN <<"$">> \o GroupChars(BeforeDot(formatted), ",")
                       \o <<".">> \o AfterDot(formatted)
          ELSE <<"$">> \o formatted

\* price.round() as i64: magnitude and sign of the rounded value (half away
\* from zero).
RoundedMag(price) == price.units + (IF price.frac >= 5000 THEN 1 ELSE 0)

\* rounded.to_string()
RoundedStr(price) ==
    (IF price.neg /\ RoundedMag(price) > 0 THEN <<"-">> ELSE <<>>)
        \o IntStr(RoundedMag(price))

\* while s.len() > 3 { result = format!(".{}{}", &s[len - 3..], result); s.truncate(len - 3); }
RECURSIVE IdrLoop(_, _)
IdrLoop(str, result) ==
    IF Len(str) > 3
    THEN IdrLoop(SubSeq(str, 1, Len(str) - 3),
                 <<".">> \o SubSeq(str, Len(str) - 2, Len(str)) \o result)
    ELSE str \o result

format_idr(price) ==
    IF price.kind # "finite" THEN Invalid
    ELSE IdrLoop(RoundedStr(price), <<>>)

\* Arguments the formatters are called with.
UnitSamples == {0, 1, 12, 123, 999, 1000, 1234, 12346, 103879, 999999, 1000000,
                42679530, 1729998000}

FracSamples == {0, 500, 999, 1000, 4999, 5000, 9951}

FmtArgs ==
    {Finite(n, u, f) : n \in BOOLEAN, u \in UnitSamples, f \in FracSamples}
        \cup {NaN, Infinity(FALSE), Infinity(TRUE)}

(***************************************************************************)
(* X geometry of the two charts, in half units of the x axis (the          *)
(* candlestick of candle i is drawn at i + 0.5).  i counts from 0 as       *)
(* enumerate() does.  The y geometry and the styling are not modelled.     *)
(***************************************************************************)
\* Canvas: x_bounds [0, len]; wick and body centred on x = i + 0.5.
render_candlestick_chart(candles) ==
    IF candles = <<>> THEN [empty |-> TRUE]
    ELSE [empty |-> FALSE,
          x_bounds |-> <<0, 2 * Len(candles)>>,
          x |-> [i \in 0..(Len(candles) - 1) |-> 2 * i + 1]]

\* Chart: x axis bounds [0, len - 1]; the volume of candle i is the point (i, volume).
render_volume_chart(candles) ==
    IF candles = <<>> THEN [empty |-> TRUE]
    ELSE [empty |-> FALSE,
          x_bounds |-> <<0, 2 * (Len(candles) - 1)>>,
          x |-> [i \in 0..(Len(candles) - 1) |-> 2 * i]]

(***************************************************************************)
(* Initial state: after the thread is spawned and main has filled its maps.*)
(***************************************************************************)
Init ==
    /\ prices = [m \in MarketSet |-> InitPrice(m)]
    /\ time = StartTime
    /\ genPc = "candle"
    /\ genIdx = 1
    /\ rngSeed \in Seeds
    /\ queue = <<>>
    /\ data = [m \in MarketSet |-> <<>>]
    /\ price_changes = [m \in MarketSet |-> 0]
    /\ latest_price_map = [m \in MarketSet |-> NoPrice]
    /\ selected_market = 0
    /\ should_quit = FALSE
    /\ mainPc = "recv"
    /\ key = "none"
    /\ sentLog = [m \in MarketSet |-> <<>>]
    /\ ingestLog = [m \in MarketSet |-> <<>>]
    /\ quitMark = -1
    /\ fmtFn = "none"
    /\ fmtArg = Finite(FALSE, 0, 0)
    /\ fmtText = <<>>

(***************************************************************************)
(* Generator thread.                                                       *)
(***************************************************************************)
\* Variant: the result of send is ignored (`let _ = tx_clone.send(..)`).
GenCandle_IgnoreErr ==
    /\ genPc = "candle"
    /\ LET market == markets[genIdx]
           open == prices[market]
           draw == Tape(rngSeed, Round, genIdx)
           candle == MakeCandle(market, time, open, draw)
       IN  /\ prices' = [prices EXCEPT ![market] = candle.close]
           /\ IF rxAlive
              THEN /\ PendingCandles < MaxQueue
                   /\ queue' = Append(queue, NewCandle(market, candle))
                   /\ sentLog' = [sentLog EXCEPT ![market] = Append(@, candle)]
              ELSE UNCHANGED <<queue, sentLog>>
           /\ IF genIdx < NMarkets
              THEN genIdx' = genIdx + 1 /\ genPc' = "candle"
              ELSE genIdx' = genIdx /\ genPc' = "sleep"
    /\ UNCHANGED <<fmtVars, time, rngSeed, storeVars, selected_market, should_quit,
                   mainPc, key, quitMark>>

\* Variant: `time += 60` sits inside the for loop, after the send.
GenCandle_ClockPerCandle ==
    /\ genPc = "candle"
    /\ LET market == markets[genIdx]
           open == prices[market]
           draw == Tape(rngSeed, Round, genIdx)
           candle == MakeCandle(market, time, open, draw)
       IN  /\ prices' = [prices EXCEPT ![market] = candle.close]
           /\ IF rxAlive
              THEN /\ PendingCandles < MaxQueue
                   /\ queue' = Append(queue, NewCandle(market, candle))
                   /\ sentLog' = [sentLog EXCEPT ![market] = Append(@, candle)]
                   /\ time' = time + ClockStep
                   /\ IF genIdx < NMarkets
                      THEN genIdx' = genIdx + 1 /\ genPc' = "candle"
                      ELSE genIdx' = genIdx /\ genPc' = "sleep"
              ELSE /\ genPc' = "done"
                   /\ UNCHANGED <<queue, sentLog, genIdx, time>>
    /\ UNCHANGED <<fmtVars, rngSeed, storeVars, selected_market, should_quit,
                   mainPc, key, quitMark>>

\* One pass of `for market in &thread_markets`: build the candle and send it.
GenCandle ==
    /\ genPc = "candle"
    /\ LET market == markets[genIdx]
           open == prices[market]
           draw == Tape(rngSeed, Round, genIdx)
           candle == MakeCandle(market, time, open, draw)
       IN  /\ prices' = [prices EXCEPT ![market] = candle.close]
           /\ IF rxAlive
              THEN /\ PendingCandles < MaxQueue
                   /\ queue' = Append(queue, NewCandle(market, candle))
                   /\ sentLog' = [sentLog EXCEPT ![market] = Append(@, candle)]
                   /\ IF genIdx < NMarkets
                      THEN genIdx' = genIdx + 1 /\ genPc' = "candle"
                      ELSE genIdx' = genIdx /\ genPc' = "sleep"
              ELSE /\ genPc' = "done"
                   /\ UNCHANGED <<queue, sentLog, genIdx>>
    /\ UNCHANGED <<fmtVars, time, rngSeed, storeVars, selected_market, should_quit,
                   mainPc, key, quitMark>>

\* thread::sleep(1 s); time += 60; next iteration of `loop`.
GenSleep ==
    /\ genPc = "sleep"
    /\ Round + 1 < MaxRounds
    /\ time' = time + ClockStep
    /\ genIdx' = 1
    /\ genPc' = "candle"
    /\ UNCHANGED <<fmtVars, prices, rngSeed, queue, storeVars, selected_market,
                   should_quit, mainPc, key, sentLog, quitMark>>

(***************************************************************************)
(* Dashboard loop of main().                                               *)
(***************************************************************************)
\* Variant: the change is also computed on the first candle, against a close of 0.
NewChange_NoGuard(old, candles, candle) ==
    IF Len(candles) > 0 THEN candle.close - candles[Len(candles)].close
    ELSE candle.close

\* price_changes entry after a NewCandle for a window `candles`.
NewChange(old, candles, candle) ==
    IF Len(candles) > 0 THEN candle.close - candles[Len(candles)].close ELSE old

\* Variant: the length test is `>=`, so a window never holds 30 candles.
Push_OffByOne(candles, candle) ==
    LET pushed == Append(candles, candle)
    IN  IF Len(pushed) >= WindowCap THEN Tail(pushed) ELSE pushed

\* Variant: on overflow the newest candle is dropped (candles.pop()).
Push_EvictNewest(candles, candle) ==
    LET pushed == Append(candles, candle)
    IN  IF Len(pushed) > WindowCap THEN SubSeq(pushed, 1, WindowCap) ELSE pushed

\* Variant: on overflow the second oldest candle is dropped (candles.remove(1)).
Push_EvictSecond(candles, candle) ==
    LET pushed == Append(candles, candle)
    IN  IF Len(pushed) > WindowCap THEN <<Head(pushed)>> \o Tail(Tail(pushed)) ELSE pushed

\* candles.push(candle); if candles.len() > 30 { candles.remove(0); }
Push(candles, candle) ==
    LET pushed == Append(candles, candle)
    IN  IF Len(pushed) > WindowCap THEN Tail(pushed) ELSE pushed

\* Variant: the message is read but stays queued.
TryRecv_Peek(q) == [message |-> Head(q), rest |-> q]

\* Variant: a second pending message is discarded with the one received.
TryRecv_DropNext(q) ==
    [message |-> Head(q), rest |-> IF Len(q) > 1 THEN Tail(Tail(q)) ELSE Tail(q)]

\* rx.try_recv() on a non-empty channel: the oldest message, and what stays queued.
TryRecv(q) == [message |-> Head(q), rest |-> Tail(q)]

\* Variant: the open is stored instead of the close.
InsertLatest_Open(map, market, candle) == [map EXCEPT ![market] = Some(candle.open)]

\* Variant: the close is stored for every market.
InsertLatest_All(map, market, candle) == [m \in DOMAIN map |-> Some(candle.close)]

\* latest_price_map.insert(market.clone(), candle.close)
InsertLatest(map, market, candle) == [map EXCEPT ![market] = Some(candle.close)]

\* Variant: the blocking `rx.recv()`: the step waits for a message.
Recv_Blocking ==
    /\ mainPc = "recv"
    /\ queue # <<>>
    /\ mainPc' = "poll"
    /\ LET message == TryRecv(queue).message IN
       /\ queue' = TryRecv(queue).rest
       /\ IF message.tag = "NewCandle"
          THEN LET market == message.market
                   candle == message.candle
               IN  /\ price_changes' =
                         [price_changes EXCEPT ![market] =
                             NewChange(@, data[market], candle)]
                   /\ data' = [data EXCEPT ![market] = Push(@, candle)]
                   /\ latest_price_map' =
                         InsertLatest(latest_price_map, market, candle)
                   /\ ingestLog' = [ingestLog EXCEPT ![market] = Append(@, candle)]
                   /\ UNCHANGED should_quit
          ELSE /\ should_quit' = TRUE
               /\ UNCHANGED storeVars
    /\ UNCHANGED <<fmtVars, genVars, selected_market, key, sentLog, quitMark>>

\* `if let Ok(message) = rx.try_recv() { match message ... }`
Recv ==
    /\ mainPc = "recv"
    /\ mainPc' = "poll"
    /\ IF queue = <<>>
       THEN UNCHANGED <<queue, storeVars, should_quit>>
       ELSE LET message == TryRecv(queue).message IN
            /\ queue' = TryRecv(queue).rest
            /\ IF message.tag = "NewCandle"
               THEN LET market == message.market
                        candle == message.candle
                    IN  /\ IF market \in DOMAIN data
                           THEN /\ price_changes' =
                                      [price_changes EXCEPT ![market] =
                                          NewChange(@, data[market], candle)]
                                /\ data' = [data EXCEPT ![market] = Push(@, candle)]
                           ELSE UNCHANGED <<data, price_changes>>
                        /\ latest_price_map' =
                              InsertLatest(latest_price_map, market, candle)
                        /\ ingestLog' = [ingestLog EXCEPT ![market] = Append(@, candle)]
                        /\ UNCHANGED should_quit
               ELSE /\ should_quit' = TRUE
                    /\ UNCHANGED storeVars
    /\ UNCHANGED <<fmtVars, genVars, selected_market, key, sentLog, quitMark>>

Events == {"q", "Down", "Up", "Tab", "Resize"}

\* event::poll(100 ms) returned Ok(false).
PollTimeout ==
    /\ mainPc = "poll"
    /\ mainPc' = "draw"
    /\ UNCHANGED <<fmtVars, genVars, queue, storeVars, selected_market, should_quit, key,
                   sentLog, quitMark>>

\* event::poll returned Ok(true) and event::read() returned event e.
PollEvent ==
    /\ mainPc = "poll"
    /\ \E e \in Events : key' = e
    /\ mainPc' = "key"
    /\ UNCHANGED <<fmtVars, genVars, queue, storeVars, selected_market, should_quit,
                   sentLog, quitMark>>

\* event::poll or event::read returned Err: `?` returns from main.
PollError ==
    /\ mainPc = "poll"
    /\ mainPc' = "failed"
    /\ UNCHANGED <<fmtVars, genVars, queue, storeVars, selected_market, should_quit, key,
                   sentLog, quitMark>>

\* Variant: no wrap-around.
NextMarket_NoWrap(i) == i + 1

NextMarket(i) == (i + 1) % NMarkets

PrevMarket(i) == IF i = 0 THEN NMarkets - 1 ELSE i - 1

\* Variant: 'q' sends Quit and leaves should_quit to the receive step.
HandleKey_SendOnly ==
    /\ mainPc = "key"
    /\ mainPc' = "draw"
    /\ key' = "none"
    /\ CASE key = "q" ->
              /\ queue' = Append(queue, QuitMsg)
              /\ quitMark' = IF quitMark = -1 THEN TotalSent ELSE quitMark
              /\ UNCHANGED <<selected_market, should_quit>>
         [] key = "Down" ->
              /\ selected_market' = NextMarket(selected_market)
              /\ UNCHANGED <<queue, should_quit, quitMark>>
         [] key = "Up" ->
              /\ selected_market' = PrevMarket(selected_market)
              /\ UNCHANGED <<queue, should_quit, quitMark>>
         [] OTHER ->
              UNCHANGED <<queue, should_quit, quitMark, selected_market>>
    /\ UNCHANGED <<fmtVars, genVars, storeVars, sentLog>>

\* `match key.code { ... }`
HandleKey ==
    /\ mainPc = "key"
    /\ mainPc' = "draw"
    /\ key' = "none"
    /\ CASE key = "q" ->
              /\ queue' = Append(queue, QuitMsg)
              /\ should_quit' = TRUE
              /\ quitMark' = IF quitMark = -1 THEN TotalSent ELSE quitMark
              /\ UNCHANGED selected_market
         [] key = "Down" ->
              /\ selected_market' = NextMarket(selected_market)
              /\ UNCHANGED <<queue, should_quit, quitMark>>
         [] key = "Up" ->
              /\ selected_market' = PrevMarket(selected_market)
              /\ UNCHANGED <<queue, should_quit, quitMark>>
         [] OTHER ->
              UNCHANGED <<queue, should_quit, quitMark, selected_market>>
    /\ UNCHANGED <<fmtVars, genVars, storeVars, sentLog>>

\* terminal.draw(...) returned Ok: the closure only reads main's state.
Draw ==
    /\ mainPc = "draw"
    /\ selected_market \in 0..(NMarkets - 1)   \* markets[selected_market]
    /\ mainPc' = "tail"
    /\ UNCHANGED <<fmtVars, genVars, queue, storeVars, selected_market, should_quit, key,
                   sentLog, quitMark>>

\* terminal.draw(...) returned Err: `?` returns from main.
DrawError ==
    /\ mainPc = "draw"
    /\ mainPc' = "failed"
    /\ UNCHANGED <<fmtVars, genVars, queue, storeVars, selected_market, should_quit, key,
                   sentLog, quitMark>>

\* Variant: the loop condition is not tested (`loop { .. }`).
LoopTail_NoExit ==
    /\ mainPc = "tail"
    /\ mainPc' = "recv"
    /\ UNCHANGED <<fmtVars, genVars, queue, storeVars, selected_market, should_quit, key,
                   sentLog, quitMark>>

\* The frame sleep, then the test of `while !should_quit`; on exit main
\* restores the terminal and returns, dropping rx.
LoopTail ==
    /\ mainPc = "tail"
    /\ mainPc' = IF should_quit THEN "done" ELSE "recv"
    /\ UNCHANGED <<fmtVars, genVars, queue, storeVars, selected_market, should_quit, key,
                   sentLog, quitMark>>

Next ==
    \/ GenCandle
    \/ GenSleep
    \/ Recv
    \/ PollTimeout
    \/ PollEvent
    \/ PollError
    \/ HandleKey
    \/ Draw
    \/ DrawError
    \/ LoopTail

Spec == Init /\ [][Next]_vars

(***************************************************************************)
(* Progress: the main thread is scheduled as long as it has a step to      *)
(* take (none of its calls blocks for more than 100 ms), so its steps are  *)
(* weakly fair.  Nothing is assumed of the generator.  The runs are cut    *)
(* after LiveRounds rounds.                                                *)
(***************************************************************************)
MainStep ==
    \/ Recv
    \/ PollTimeout
    \/ PollEvent
    \/ PollError
    \/ HandleKey
    \/ Draw
    \/ DrawError
    \/ LoopTail

NextLive == Next /\ Round' < LiveRounds

SpecLive == Init /\ [][NextLive]_vars /\ WF_vars(MainStep)

(***************************************************************************)
(* The formatters as called from the render closure, on arbitrary f64      *)
(* arguments.                                                              *)
(***************************************************************************)
CallFormatUsd ==
    /\ \E price \in FmtArgs :
          /\ fmtArg' = price
          /\ fmtText' = format_usd(price)
    /\ fmtFn' = "usd"
    /\ UNCHANGED <<genVars, queue, storeVars, selected_market, should_quit,
                   mainPc, key, sentLog, quitMark>>

CallFormatIdr ==
    /\ \E price \in FmtArgs :
          /\ fmtArg' = price
          /\ fmtText' = format_idr(price)
    /\ fmtFn' = "idr"
    /\ UNCHANGED <<genVars, queue, storeVars, selected_market, should_quit,
                   mainPc, key, sentLog, quitMark>>

NextFmt == CallFormatUsd \/ CallFormatIdr

SpecFmt == Init /\ [][NextFmt]_vars

TypeOK ==
    /\ genPc \in {"candle", "sleep", "done"}
    /\ genIdx \in 1..NMarkets
    /\ selected_market \in Nat
    /\ should_quit \in BOOLEAN
    /\ mainPc \in {"recv", "poll", "key", "draw", "tail", "done", "failed"}
    /\ key \in Events \cup {"none"}

(***************************************************************************)
(* Helpers of the properties.                                              *)
(***************************************************************************)
Last(seq) == seq[Len(seq)]

\* The last n elements of seq.
Suffix(seq, n) == SubSeq(seq, Len(seq) - n + 1, Len(seq))

IsPrefix(a, b) == Len(a) <= Len(b) /\ a = SubSeq(b, 1, Len(a))

\* Market m's window changed in this step, i.e. a candle was ingested for m.
Ingested(m) == ingestLog'[m] # ingestLog[m]

\* C1: after k NewCandle messages for an instrument have been ingested its
\* window holds exactly min(k, 30) candles; so no window is ever longer than 30.
C1_WindowLength ==
    \A m \in MarketSet :
        /\ Len(data[m]) = Min(Len(ingestLog[m]), WindowCap)
        /\ Len(data[m]) <= WindowCap

\* C1 witness: an instrument has had more than 30 ingestions and its window is full.
C1_Witness ==
    \E m \in MarketSet : Len(ingestLog[m]) > WindowCap /\ Len(data[m]) = WindowCap

C2_State ==
    \A m \in MarketSet :
        /\ data[m] = Suffix(ingestLog[m], Min(Len(ingestLog[m]), WindowCap))
        /\ \A i \in 1..(Len(data[m]) - 1) : data[m][i].time < data[m][i + 1].time

C2_Step ==
    \A m \in MarketSet :
        /\ (Ingested(m) /\ Len(data[m]) = WindowCap)
              => data'[m] = Append(Tail(data[m]), Last(ingestLog'[m]))
        /\ (Ingested(m) /\ Len(data[m]) < WindowCap)
              => data'[m] = Append(data[m], Last(ingestLog'[m]))
        /\ (data[m] # <<>>) => (data'[m] # <<>> /\ data'[m][1].time >= data[m][1].time)

\* C2: eviction is strict FIFO: an ingestion into a full window removes exactly
\* the oldest candle, so a window is always the most recent min(k, 30) candles
\* ingested, in ingestion order, with ascending times, and the time of the
\* oldest retained candle never decreases.
C2_FifoEviction == [](C2_State) /\ [][C2_Step]_vars

\* C2 witness: two evictions have happened: the window starts at the third
\* candle ingested for the instrument.
C2_Witness ==
    \E m \in MarketSet :
        /\ Len(ingestLog[m]) = WindowCap + 2
        /\ data[m][1] = ingestLog[m][3]
        /\ data[m][1].time > ingestLog[m][1].time

C3_State ==
    \A m \in MarketSet :
        IF Len(data[m]) < 2
        THEN price_changes[m] = 0
        ELSE price_changes[m] =
                 data[m][Len(data[m])].close - data[m][Len(data[m]) - 1].close

C3_Step ==
    \A m \in MarketSet :
        Ingested(m) =>
            IF data[m] # <<>>
            THEN price_changes'[m] = Last(ingestLog'[m]).close - Last(data[m]).close
            ELSE price_changes'[m] = 0

\* C3: ingesting candle c into a non-empty window sets lastDelta to c.close
\* minus the close of the previously newest candle; the first ingestion leaves
\* it 0; so lastDelta is 0 for a window of fewer than 2 candles and otherwise
\* close(newest) - close(second newest).
C3_LastDelta == [](C3_State) /\ [][C3_Step]_vars

\* C3 witness: a window of at least two candles with a negative delta, and
\* another instrument with exactly one candle.
C3_Witness ==
    \E m, n \in MarketSet :
        /\ Len(data[m]) >= 2 /\ price_changes[m] < 0
        /\ Len(data[n]) = 1 /\ data[n][1].close # 0

C4_State ==
    \A m \in MarketSet :
        /\ (latest_price_map[m] = NoPrice) <=> (data[m] = <<>>)
        /\ data[m] # <<>> => latest_price_map[m] = Some(Last(data[m]).close)

C4_Step ==
    \A m \in MarketSet :
        Ingested(m) => latest_price_map'[m] = Some(Last(ingestLog'[m]).close)

\* C4: after every ingestion of a candle for an instrument its lastPrice is the
\* candle's close; lastPrice is absent exactly when the window is empty and
\* otherwise is the close of the newest candle of the window.
C4_LastPrice == [](C4_State) /\ [][C4_Step]_vars

\* C4 witness: one instrument has a price that differs from the open of its
\* newest candle while another still has none.
C4_Witness ==
    \E m, n \in MarketSet :
        /\ data[m] # <<>>
        /\ latest_price_map[m] = Some(Last(data[m]).close)
        /\ latest_price_map[m] # Some(Last(data[m]).open)
        /\ latest_price_map[n] = NoPrice

CandleOK(c) ==
    /\ c.low <= Min(c.open, c.close)
    /\ c.high >= Max(c.open, c.close)
    /\ c.volume >= 0

\* C5: every candle the generator emits, for every instrument and round, has
\* low <= min(open, close), high >= max(open, close) and volume >= 0.
C5_CandleShape ==
    \A m \in MarketSet : \A i \in 1..Len(sentLog[m]) : CandleOK(sentLog[m][i])

\* C5 witness: one instrument has emitted a rising candle with no upper wick,
\* a falling candle with no lower wick and a flat candle.
C5_Witness ==
    \E m \in MarketSet :
        /\ \E i \in 1..Len(sentLog[m]) :
              sentLog[m][i].close > sentLog[m][i].open
              /\ sentLog[m][i].high = sentLog[m][i].close
        /\ \E i \in 1..Len(sentLog[m]) :
              sentLog[m][i].close < sentLog[m][i].open
              /\ sentLog[m][i].low = sentLog[m][i].close
        /\ \E i \in 1..Len(sentLog[m]) :
              sentLog[m][i].close = sentLog[m][i].open

C6_State == selected_market \in 0..(NMarkets - 1)

\* The key handler runs in this step.
KeyStep == mainPc = "key" /\ mainPc' # "key"

C6_Step ==
    /\ (KeyStep /\ key = "Down") =>
          selected_market' =
              IF selected_market = NMarkets - 1 THEN 0 ELSE selected_market + 1
    /\ (KeyStep /\ key = "Up") =>
          selected_market' =
              IF selected_market = 0 THEN NMarkets - 1 ELSE selected_market - 1

\* C6: after any sequence of key events the selected index is in
\* [0, instrumentCount); Down maps i to (i+1) mod count (count-1 wraps to 0),
\* Up maps 0 to count-1 and any other i to i-1.
C6_Selection == [](C6_State) /\ [][C6_Step]_vars

\* C6 witness: a Down key is about to be handled at the last instrument, after
\* the selection was moved there by earlier keys.
C6_Witness ==
    mainPc = "key" /\ key = "Down" /\ selected_market = NMarkets - 1

C7_Step ==
    /\ (KeyStep /\ key = "q") => should_quit'
    /\ should_quit =>
          /\ should_quit'
          /\ mainPc' # "recv"
          /\ UNCHANGED <<data, price_changes, latest_price_map, ingestLog>>

\* C7: when a quit key is read the loop is in Shutdown (should_quit) within
\* the same input-poll cycle, and from then on nothing is ingested, even with
\* candles still queued or still being sent.
C7_NoIngestAfterQuit == [][C7_Step]_vars

\* C7 witness: main has returned after a quit key while candles are still
\* queued, some of them sent after the key was handled.
C7_Witness ==
    /\ should_quit /\ mainPc = "done"
    /\ PendingCandles > 0
    /\ TotalSent > quitMark

\* C8 as stated: once the quit key is handled the generator observes the
\* signal at its next per-round check, so it emits at most one more round of
\* candles (one per instrument) after the key.
C8_Original == quitMark # -1 => TotalSent - quitMark <= NMarkets

C8_State == genPc = "done" => mainPc \in {"done", "failed"}

C8_Step == mainPc \in {"done", "failed"} => UNCHANGED <<sentLog, queue>>

\* C8 amended: the quit key does not reach the generator (Quit is queued on
\* main's own receiver): the generator terminates only after main has returned
\* and dropped the receiver, and from that drop on it emits no candle.
C8_StopsOnlyOnDrop ==
    [](C8_State) /\ [][C8_Step]_vars

\* C8 witness: after a quit key the generator went on emitting while main was
\* still running, and terminated once main had returned.
C8_Witness ==
    /\ quitMark # -1 /\ TotalSent > quitMark
    /\ mainPc = "done" /\ genPc = "done"

C9_Step ==
    /\ (mainPc \in {"done", "failed"} /\ genPc = "candle") =>
          /\ genPc' = "done"
          /\ UNCHANGED <<queue, sentLog, time, genIdx>>
    /\ genPc = "done" => UNCHANGED <<genVars, queue, sentLog>>

\* C9: a send that fails because the receiver is gone terminates the
\* generator at once: no further candle is sent (the remaining instruments of
\* the round included) and the clock never advances again.
C9_SendFailureStops == [][C9_Step]_vars

\* C9 witness: the generator terminated in the middle of a round, the
\* instruments after genIdx still without their candle of that round.
C9_Witness ==
    /\ genPc = "done" /\ genIdx > 1 /\ genIdx < NMarkets
    /\ Len(sentLog[markets[genIdx]]) < Len(sentLog[markets[1]])
    /\ Len(sentLog[markets[NMarkets]]) < Len(sentLog[markets[1]])

\* The candles of market m waiting in the channel, oldest first.
Queued(m) ==
    LET IsCandleOf(message) == IsCandleMsg(message) /\ message.market = m
        msgs == SelectSeq(queue, IsCandleOf)
    IN  [i \in 1..Len(msgs) |-> msgs[i].candle]

\* C10: under every interleaving each ingested candle was sent earlier, none
\* is ingested twice, and per instrument the ingestion order is the order of
\* production: the ingested candles are a prefix of the sent ones, each later
\* in time than the one before, and the rest are exactly the ones still queued.
C10_ExactlyOnceInOrder ==
    \A m \in MarketSet :
        /\ IsPrefix(ingestLog[m], sentLog[m])
        /\ \A i \in 1..(Len(ingestLog[m]) - 1) :
              ingestLog[m][i].time < ingestLog[m][i + 1].time
        /\ sentLog[m] = ingestLog[m] \o Queued(m)

\* C10 witness: an instrument with two candles ingested and another candle of
\* it queued behind a candle of a different instrument.
C10_Witness ==
    \E m \in MarketSet :
        /\ Len(ingestLog[m]) >= 2
        /\ Len(Queued(m)) >= 1
        /\ queue # <<>> /\ Head(queue).tag = "NewCandle" /\ Head(queue).market # m


C11_State ==
    /\ \A m \in MarketSet : \A i \in 1..Len(sentLog[m]) :
          /\ sentLog[m][i].time = sentLog[markets[1]][i].time
          /\ i > 1 => sentLog[m][i].time = sentLog[m][i - 1].time + 60
    /\ \A j \in 1..(NMarkets - 1) :
          /\ Len(sentLog[markets[j]]) >= Len(sentLog[markets[j + 1]])
          /\ Len(sentLog[markets[j]]) <= Len(sentLog[markets[NMarkets]]) + 1

C11_Step ==
    time' # time =>
        /\ time' = time + 60
        /\ \A m \in MarketSet : Len(sentLog[m]) = Len(sentLog[markets[1]])
        /\ sentLog' = sentLog

\* C11: within a tick round the generator takes the instruments in the same
\* fixed order and stamps their candles with one time value; the clock
\* advances by exactly 60, once per completed round and never per instrument,
\* so successive candles of an instrument are 60 apart.
C11_RoundClock == [](C11_State) /\ [][C11_Step]_vars

\* C11 witness: the generator is in the middle of its third round: the first
\* two instruments have three candles, the others two, all rounds sharing
\* their time across instruments.
C11_Witness ==
    /\ genPc = "candle" /\ genIdx = 3
    /\ Len(sentLog[markets[1]]) = 3 /\ Len(sentLog[markets[2]]) = 3
    /\ Len(sentLog[markets[3]]) = 2 /\ Len(sentLog[markets[NMarkets]]) = 2
    /\ sentLog[markets[2]][3].time = time
    /\ sentLog[markets[NMarkets]][2].time = time - 60


(***************************************************************************)
(* C12: format_usd keeps the sign of a negative finite value as a '-' that *)
(* leads the number (right after the '$' the function always writes), in   *)
(* every magnitude branch, and writes ',' only between groups of three     *)
(* integer digits: a digit before it, exactly three digits after it.       *)
(***************************************************************************)
DigitsAfter(text, i) == Cardinality({j \in (i + 1)..Len(text) : IsDigit(text[j])})

SeparatorOK(text, i) ==
    /\ i > 1
    /\ IsDigit(text[i - 1])
    /\ i + 3 <= Len(text)
    /\ \A j \in (i + 1)..(i + 3) : IsDigit(text[j])
    /\ i + 4 <= Len(text) => ~IsDigit(text[i + 4])

C12_SignAndGrouping ==
    (fmtFn = "usd" /\ fmtArg.kind = "finite" /\ ~IsZero(fmtArg)) =>
        /\ fmtText[1] = "$"
        /\ fmtArg.neg => fmtText[2] = "-" /\ IsDigit(fmtText[3])
        /\ \A i \in 1..Len(fmtText) :
              /\ fmtText[i] = "-" => i = 2 /\ fmtArg.neg
              /\ fmtText[i] = "," => SeparatorOK(fmtText, i)

(***************************************************************************)
(* C13: for every finite value format_idr returns the digits of the value  *)
(* rounded to the nearest integer (after a '-' when that integer is        *)
(* negative), with a '.' between each group of three digits counted from   *)
(* the right and nowhere else, no suffix and no decimals.                  *)
(***************************************************************************)
C13_GroupedInteger ==
    (fmtFn = "idr" /\ fmtArg.kind = "finite") =>
        /\ SelectSeq(fmtText, IsDigit) = IntStr(RoundedMag(fmtArg))
        /\ \A i \in 1..Len(fmtText) :
              /\ fmtText[i] \in {"-", "."} \/ IsDigit(fmtText[i])
              /\ fmtText[i] = "-" => i = 1 /\ fmtArg.neg /\ RoundedMag(fmtArg) > 0
              /\ fmtText[i] = "." =>
                    /\ i > 1 /\ IsDigit(fmtText[i - 1])
                    /\ DigitsAfter(fmtText, i) > 0
                    /\ DigitsAfter(fmtText, i) % 3 = 0
              /\ (IsDigit(fmtText[i]) /\ i < Len(fmtText) /\ IsDigit(fmtText[i + 1]))
                    => DigitsAfter(fmtText, i) % 3 # 0
        /\ (fmtArg.neg /\ RoundedMag(fmtArg) > 0) => fmtText[1] = "-"


(***************************************************************************)
(* C14: while the dashboard loop is running (no quit, no terminal error)   *)
(* and keeps iterating, every candle the generator has sent is eventually  *)
(* ingested into its market's window, although an iteration receives one   *)
(* message and a round sends one per market.                               *)
(***************************************************************************)
Stopped == should_quit \/ mainPc \in {"done", "failed"}

IngestedAt(m, i) == Len(ingestLog[m]) >= i /\ ingestLog[m][i] = sentLog[m][i]

C14_EventuallyIngested ==
    \A m \in MarketSet : \A i \in 1..LiveRounds :
        (Len(sentLog[m]) >= i) ~> (IngestedAt(m, i) \/ Stopped)

\* Reached: a backlog of a whole round is pending while the loop runs and has
\* already ingested the first round.
C14_Witness ==
    /\ ~Stopped
    /\ PendingCandles >= NMarkets
    /\ \A m \in MarketSet : Len(ingestLog[m]) >= 1


(***************************************************************************)
(* C15: an iteration of the running loop receives at most one message and  *)
(* never waits for one: the queue shrinks only in the receive step and by  *)
(* its head alone; the receive step can be taken on an empty queue, then   *)
(* leaves windows, changes and latest prices as they are, and goes on to   *)
(* the poll, from which the render call is reached.                        *)
(***************************************************************************)
RecvStep == mainPc = "recv" /\ mainPc' # "recv"

C15_State ==
    /\ mainPc = "recv" => ENABLED Recv
    /\ mainPc = "poll" => ENABLED PollTimeout
    /\ mainPc = "key" => ENABLED HandleKey

C15_Step ==
    /\ Len(queue') < Len(queue) => RecvStep /\ queue' = Tail(queue)
    /\ RecvStep =>
          /\ mainPc' = "poll"
          /\ queue = <<>> => UNCHANGED <<queue, data, price_changes, latest_price_map>>
          /\ queue # <<>> => queue' = Tail(queue)
    /\ mainPc = "poll" /\ mainPc' # "poll" => mainPc' \in {"key", "draw", "failed"}
    /\ mainPc = "key" /\ mainPc' # "key" => mainPc' = "draw"
    /\ mainPc' = "recv" /\ mainPc # "recv" => mainPc = "tail" /\ ~should_quit

C15_OneMessageNoBlocking == [](C15_State) /\ [][C15_Step]_vars

\* Reached: the render call of an iteration whose receive step found the
\* queue empty (nothing was ever sent), after a key was handled.
C15_Witness ==
    /\ mainPc = "tail"
    /\ TotalSent = 0
    /\ selected_market = 1
    /\ \A m \in MarketSet : data[m] = <<>> /\ latest_price_map[m] = NoPrice


(***************************************************************************)
(* C16: each step changes only the state it owns.  Handling a key changes  *)
(* no window, change or latest price; a key other than Up, Down and 'q'    *)
(* changes neither the selection nor should_quit; ingesting a candle of    *)
(* one market changes neither the selection nor the window, change and     *)
(* latest price of any other market; the render call changes neither the   *)
(* windows nor the selection.                                              *)
(***************************************************************************)
DrawStep == mainPc = "draw" /\ mainPc' # "draw"

C16_Step ==
    /\ KeyStep => UNCHANGED <<data, price_changes, latest_price_map>>
    /\ (KeyStep /\ key \notin {"Up", "Down", "q"}) =>
          UNCHANGED <<selected_market, should_quit>>
    /\ \A m \in MarketSet :
          (Ingested(m) \/ data'[m] # data[m] \/ price_changes'[m] # price_changes[m]
               \/ latest_price_map'[m] # latest_price_map[m]) =>
              /\ RecvStep
              /\ queue # <<>> /\ Head(queue).tag = "NewCandle" /\ Head(queue).market = m
              /\ selected_market' = selected_market
              /\ \A o \in MarketSet \ {m} :
                    /\ data'[o] = data[o]
                    /\ price_changes'[o] = price_changes[o]
                    /\ latest_price_map'[o] = latest_price_map[o]
    /\ DrawStep => UNCHANGED <<data, price_changes, latest_price_map, selected_market>>

C16_Ownership == [][C16_Step]_vars

\* Reached: the second candle of the first market is ingested and rendered
\* while another market is selected and holds one candle.
C16_Witness ==
    /\ mainPc = "tail"
    /\ selected_market = 2
    /\ Len(data[markets[1]]) = 2
    /\ price_changes[markets[1]] # 0
    /\ \A j \in 2..NMarkets : Len(data[markets[j]]) = 1 /\ price_changes[markets[j]] = 0


(***************************************************************************)
(* C17: once 'q' has set should_quit, no further render call is issued.    *)
(* C17_Original states this; amended, C17_OneLastRender: after 'q' has set *)
(* should_quit the loop issues exactly the render call of the iteration    *)
(* that handled the key, then leaves at the loop test; no render call is   *)
(* issued after the loop has exited.                                       *)
(***************************************************************************)
C17_Original == [][~(should_quit /\ DrawStep)]_vars

C17_State == should_quit => mainPc \in {"draw", "tail", "done", "failed"}

C17_Step ==
    /\ (~should_quit /\ should_quit') => KeyStep /\ key = "q" /\ mainPc' = "draw"
    /\ should_quit => should_quit'
    /\ (should_quit /\ mainPc = "draw") => mainPc' \in {"draw", "tail", "failed"}
    /\ (should_quit /\ mainPc = "tail") => mainPc' \in {"tail", "done"}
    /\ mainPc \in {"done", "failed"} => mainPc' = mainPc

C17_OneLastRender == [](C17_State) /\ [][C17_Step]_vars

\* Reached: the render call issued after should_quit was set has returned.
C17_Witness ==
    /\ should_quit
    /\ mainPc = "tail"
    /\ quitMark # -1


(***************************************************************************)
(* C18: for every non-empty window the volume bar of the candle at         *)
(* position i is placed at the same X position as that candle's            *)
(* candlestick, and both positions lie inside their chart's X domain.      *)
(* "Same position" is read as the same fraction of the chart's X domain    *)
(* (the same screen column for charts of equal width), the reading most    *)
(* favourable to the code: the X values themselves, i and i + 0.5, are     *)
(* never equal.                                                            *)
(***************************************************************************)
Width(chart) == chart.x_bounds[2] - chart.x_bounds[1]

InDomain(chart, i) == chart.x_bounds[1] <= chart.x[i] /\ chart.x[i] <= chart.x_bounds[2]

\* The same fraction of the domain: (xc - lo_c) / width_c = (xv - lo_v) / width_v.
SameColumn(cs, vol, i) ==
    (cs.x[i] - cs.x_bounds[1]) * Width(vol) = (vol.x[i] - vol.x_bounds[1]) * Width(cs)

C18_BarsAligned ==
    \A m \in MarketSet :
        data[m] # <<>> =>
            LET cs == render_candlestick_chart(data[m])
                vol == render_volume_chart(data[m])
            IN  \A i \in 0..(Len(data[m]) - 1) :
                    /\ SameColumn(cs, vol, i)
                    /\ InDomain(cs, i)
                    /\ InDomain(vol, i)


(***************************************************************************)
(* C19: the dashboard loop never receives a Quit message.  The generator   *)
(* sends none; the one the loop sends on 'q' goes to the loop's own queue  *)
(* in the step that sets should_quit, while the receiver is alive (the     *)
(* send cannot fail); every message taken at the receive step is a         *)
(* NewCandle and the Quit stays in the queue.                              *)
(***************************************************************************)
IsQuitMsg(message) == message.tag = "Quit"

PendingQuits(q) == Len(SelectSeq(q, IsQuitMsg))

C19_State ==
    /\ (mainPc = "recv" /\ queue # <<>>) => Head(queue).tag = "NewCandle"
    /\ should_quit <=> PendingQuits(queue) = 1
    /\ ~should_quit <=> PendingQuits(queue) = 0

C19_Step ==
    /\ (RecvStep /\ queue # <<>>) =>
          /\ Head(queue).tag = "NewCandle"
          /\ should_quit' = should_quit
    /\ PendingQuits(queue') # PendingQuits(queue) =>
          /\ KeyStep /\ key = "q"
          /\ rxAlive
          /\ queue' = Append(queue, QuitMsg)
          /\ ~should_quit /\ should_quit'
    /\ (KeyStep /\ key = "q") => queue' = Append(queue, QuitMsg) /\ should_quit'
    /\ should_quit' # should_quit => KeyStep /\ key = "q"

C19_QuitNeverReceived == [](C19_State) /\ [][C19_Step]_vars

\* Reached: main has returned; its Quit is still queued, behind a candle
\* that was never received and before one sent after it.
C19_Witness ==
    /\ mainPc = "done"
    /\ Len(queue) >= 3
    /\ \E i \in 2..(Len(queue) - 1) : queue[i] = QuitMsg


(***************************************************************************)
(* C20: in every reachable state and for every market, consecutive candles *)
(* a, b of the window are contiguous: b.open = a.close and                 *)
(* b.time = a.time + 60; evictions keep this, so for a window of at least  *)
(* two candles the price change is the newest candle's close minus its     *)
(* open.                                                                   *)
(***************************************************************************)
Contiguous(a, b) == b.open = a.close /\ b.time = a.time + 60

C20_Contiguous ==
    \A m \in MarketSet :
        /\ \A i \in 1..(Len(data[m]) - 1) : Contiguous(data[m][i], data[m][i + 1])
        /\ Len(data[m]) >= 2 =>
              price_changes[m] = Last(data[m]).close - Last(data[m]).open

\* Reached: a window that has evicted its oldest candle, with a non-zero change.
C20_Witness ==
    LET m == markets[NMarkets] IN
    /\ Len(ingestLog[m]) = WindowCap + 2
    /\ Len(data[m]) = WindowCap
    /\ price_changes[m] # 0
    /\ Head(data[m]).time = StartTime + 2 * 60

====
